---- MODULE Spec2Model ----
(***************************************************************************)
(* A model of untangle.py: the partition generator (get_codewords,         *)
(* get_partitions), the matcher (is_connectable,                           *)
(* get_acceptable_connections, get_acceptable_partitions), the simplifier  *)
(* (remove_small_inputs, remove_small_outputs, simplify) and untangle.     *)
(*                                                                         *)
(* An entry is the Python tuple (identifier, value), here <<id, value>>;   *)
(* Python's item[1] is e[2].  A transaction is the Python list             *)
(* [id, inputs, outputs, fee], here the record [inputs, outputs, fee].     *)
(* Python lists are sequences; Python's 0-based indices are kept in        *)
(* startIndex and shifted by one where a sequence is indexed.              *)
(***************************************************************************)
EXTENDS Integers, Sequences, FiniteSets, TLC

\* ------------------------------------------------------------------ bounds

\* longest input list and longest output list of a transaction passed to the
\* simplifier or to untangle
MaxLen == 2
\* largest value of an entry of such a transaction
MaxVal == 3
\* most entries, inputs and outputs together, of a transaction passed to
\* get_acceptable_partitions
MatchEntries == 6
\* largest sum of the input values, and of the output values, of such a
\* transaction
MatchTotal == 2
\* largest fee of such a transaction
MatchFee == 2
\* longest element list passed to get_partitions
MaxN == 4

\* ----------------------------------------------------------------- helpers

RECURSIVE SumSeq(_)
\* Python's sum() over a list of integers
SumSeq(s) == IF s = <<>> THEN 0 ELSE Head(s) + SumSeq(Tail(s))

\* sum([item[1] for item in subset])
SumValues(subset) == SumSeq([i \in 1..Len(subset) |-> subset[i][2]])

\* Python's max() over a non-empty list of integers
MaxOf(s) == CHOOSE m \in {s[i] : i \in 1..Len(s)} : \A i \in 1..Len(s) : s[i] <= m

RECURSIVE ConcatAll(_)
\* the concatenation of a list of lists (repeated += / append in a loop)
ConcatAll(ss) == IF ss = <<>> THEN <<>> ELSE Head(ss) \o ConcatAll(Tail(ss))

\* x in list
InList(x, list) == \E i \in 1..Len(list) : list[i] = x

\* [x for x in list if not x in removed]
Without(list, removed) == SelectSeq(list, LAMBDA x : ~InList(x, removed))

\* ------------------------------------------------------------ get_codewords

RECURSIVE InnerLoop(_, _, _)
\* a faulty variant of InnerLoop, with > k for >= k in the test of line 52: a
\* codeword may then name k + 1 subsets.  C5_PartitionsExact fails of it.
InnerLoop_StrictK(codeword, startIndex, k) ==
    IF ~(startIndex >= 0)
    THEN [how |-> "exit", codeword |-> codeword]
    ELSE IF SubSeq(codeword, 1, startIndex) = <<>>
    THEN [how |-> "return", codeword |-> codeword]
    ELSE LET maxValue == MaxOf(SubSeq(codeword, 1, startIndex))
             codewordAtStartIndex == codeword[startIndex + 1]
         IN  IF maxValue > k \/ codewordAtStartIndex > maxValue
                \/ codewordAtStartIndex > k
             THEN InnerLoop([codeword EXCEPT ![startIndex + 1] = 1],
                            startIndex - 1, k)
             ELSE [how |-> "break",
                   codeword |-> [codeword EXCEPT ![startIndex + 1] = @ + 1]]

\* the inner while loop of get_codewords (lines 46-57), from startIndex:
\* "return" when the prefix codeword[0:startIndex] is empty, "break" with the
\* advanced codeword after an increment, "exit" when startIndex < 0 ends the
\* while without either (then the outer loop turns again)
InnerLoop(codeword, startIndex, k) ==
    IF ~(startIndex >= 0)
    THEN [how |-> "exit", codeword |-> codeword]
    ELSE IF SubSeq(codeword, 1, startIndex) = <<>>
    THEN [how |-> "return", codeword |-> codeword]
    ELSE LET maxValue == MaxOf(SubSeq(codeword, 1, startIndex))
             codewordAtStartIndex == codeword[startIndex + 1]
         IN  IF maxValue > k \/ codewordAtStartIndex > maxValue
                \/ codewordAtStartIndex >= k
             THEN InnerLoop([codeword EXCEPT ![startIndex + 1] = 1],
                            startIndex - 1, k)
             ELSE [how |-> "break",
                   codeword |-> [codeword EXCEPT ![startIndex + 1] = @ + 1]]

\* one turn of the outer while True (lines 44-57): the codeword is appended
\* and the inner loop run from startIndex = n - 1
RECURSIVE OuterLoop(_, _, _, _)
OuterLoop(codewords, codeword, n, k) ==
    LET r == InnerLoop(codeword, n - 1, k)
    IN  IF r.how = "return"
        THEN Append(codewords, codeword)
        ELSE OuterLoop(Append(codewords, codeword), r.codeword, n, k)

RECURSIVE Ones(_)
\* line 42: [1 for _ in range(0, n)]
Ones(n) == IF n <= 0 THEN <<>> ELSE Append(Ones(n - 1), 1)

\* get_codewords(n, k) where the call returns.  With n = 0 the inner while is
\* never entered, so no turn of the outer loop reaches the return: the call
\* is then modelled by the steps CwAppend and CwAdvance below, not by this
\* operator.
get_codewords(n, k) == OuterLoop(<<>>, Ones(n), n, k)

\* whether get_codewords(n, k) reaches its return statement
Returns(n) == n >= 1

\* ----------------------------------------------------------- get_partitions

\* a faulty variant of PartitionOf, with range(n - 1) for range(n) in the loop
\* of line 70: the last element is put in no subset.  C10_FlowsAddUpToFee
\* fails of it.
PartitionOf_DropLast(list, codeword) ==
    LET num_subsets == MaxOf(codeword)
    IN  [b \in 1..num_subsets |->
            LET idx == SelectSeq([i \in 1..(Len(codeword) - 1) |-> i],
                                 LAMBDA i : codeword[i] = b)
            IN  [j \in 1..Len(idx) |-> list[idx[j]]]]

\* lines 65-73: the partition a codeword encodes, element i of the list in
\* subset codeword[i] - 1
PartitionOf(list, codeword) ==
    LET num_subsets == MaxOf(codeword)
    IN  [b \in 1..num_subsets |->
            LET idx == SelectSeq([i \in 1..Len(codeword) |-> i],
                                 LAMBDA i : codeword[i] = b)
            IN  [j \in 1..Len(idx) |-> list[idx[j]]]]

\* lines 63-76, given the codewords
PartitionsOf(list, codewords) ==
    [c \in 1..Len(codewords) |-> PartitionOf(list, codewords[c])]

get_partitions(list, max_size) ==
    PartitionsOf(list, get_codewords(Len(list), max_size))

\* --------------------------------------------------- group_partitions_by_size

\* the dictionary size -> partitions of that size, in the order generated; a
\* size no partition has is no key of it
group_partitions_by_size(partitions) ==
    LET sizes == [i \in 1..Len(partitions) |-> Len(partitions[i])]
    IN  [size \in {z \in 1..MaxOf(sizes) : InList(z, sizes)} |->
            SelectSeq(partitions, LAMBDA partition : Len(partition) = size)]

\* ------------------------------------------------------------ is_connectable

\* a faulty variant of is_connectable, without the comparison with the fee of
\* line 99.  C3_AcceptableSound fails of it.
is_connectable_NoFeeBound(input_subset, output_subset, transaction_fee) ==
    LET input_sum == SumValues(input_subset)
        output_sum == SumValues(output_subset)
    IN  input_sum >= output_sum

is_connectable(input_subset, output_subset, transaction_fee) ==
    LET input_sum == SumValues(input_subset)
        output_sum == SumValues(output_subset)
        a == output_sum + transaction_fee
    IN  a >= input_sum /\ input_sum >= output_sum

\* ------------------------------------------------ get_acceptable_connections

\* s without its i-th item
RemoveAt(s, i) == SubSeq(s, 1, i - 1) \o SubSeq(s, i + 1, Len(s))

\* a faulty variant of permutations that yields the given ordering only.
\* C4_AcceptableExact fails of it.
permutations_GivenOrder(items) == << items >>

RECURSIVE permutations(_)
\* itertools.permutations(items, len(items)) as a list: every ordering of the
\* positions, in lexicographic order of the positions
permutations(items) ==
    IF items = <<>>
    THEN << <<>> >>
    ELSE ConcatAll([i \in 1..Len(items) |->
            LET rest == permutations(RemoveAt(items, i))
            IN  [j \in 1..Len(rest) |-> <<items[i]>> \o rest[j]]])

\* lines 107-112: every index-aligned pair of the ordering is connectable
Acceptable(partition_size, input_partition, output_ordering, transaction_fee) ==
    \A i \in 1..partition_size :
        is_connectable(input_partition[i], output_ordering[i], transaction_fee)

get_acceptable_connections(partition_size, input_partition, output_partition, transaction_fee) ==
    LET output_orders == permutations(output_partition)
        kept == SelectSeq(output_orders, LAMBDA output_ordering :
                    Acceptable(partition_size, input_partition, output_ordering,
                               transaction_fee))
    IN  [j \in 1..Len(kept) |-> <<input_partition, kept[j]>>]

\* ------------------------------------------------- get_acceptable_partitions

\* min(num_inputs, num_outputs)
Min(a, b) == IF a <= b THEN a ELSE b

\* get_acceptable_partitions(transaction) where both calls of get_partitions
\* return
get_acceptable_partitions(transaction) ==
    LET inputs == transaction.inputs
        outputs == transaction.outputs
        transaction_fee == transaction.fee
        max_partition_size == Min(Len(inputs), Len(outputs))
        input_partitions ==
            group_partitions_by_size(get_partitions(inputs, max_partition_size))
        output_partitions ==
            group_partitions_by_size(get_partitions(outputs, max_partition_size))
    IN  ConcatAll([d \in 1..(max_partition_size - 1) |->
            LET i == d + 1
            IN  ConcatAll([p \in 1..Len(input_partitions[i]) |->
                    ConcatAll([q \in 1..Len(output_partitions[i]) |->
                        get_acceptable_connections(i, input_partitions[i][p],
                            output_partitions[i][q], transaction_fee)])])])

\* get_acceptable_partitions reaches its return iff both get_codewords calls do
GapReturns(transaction) ==
    Returns(Len(transaction.inputs)) /\ Returns(Len(transaction.outputs))

\* ------------------------------------------------------- remove_small_inputs

RECURSIVE sort(_)
\* list.sort(key=sort_key): ascending by value, stable
sort(s) ==
    IF Len(s) <= 1
    THEN s
    ELSE LET rest == sort(SubSeq(s, 1, Len(s) - 1))
             x == s[Len(s)]
             p == Cardinality({i \in 1..Len(rest) : rest[i][2] <= x[2]})
         IN  SubSeq(rest, 1, p) \o <<x>> \o SubSeq(rest, p + 1, Len(rest))

RECURSIVE MarkInputs(_, _, _, _)
\* the loop of lines 152-157 from the i-th sorted input on
MarkInputs(inputs, i, transaction_fee, inputs_to_remove) ==
    IF i > Len(inputs)
    THEN [fee |-> transaction_fee, to_remove |-> inputs_to_remove]
    ELSE IF inputs[i][2] <= transaction_fee
    THEN MarkInputs(inputs, i + 1, transaction_fee - inputs[i][2],
                    Append(inputs_to_remove, inputs[i]))
    ELSE [fee |-> transaction_fee, to_remove |-> inputs_to_remove]

\* the transaction remove_small_inputs leaves and returns
remove_small_inputs(transaction) ==
    LET inputs == sort(transaction.inputs)
        r == MarkInputs(inputs, 1, transaction.fee, <<>>)
    IN  [transaction EXCEPT !.inputs = Without(inputs, r.to_remove),
                            !.fee = r.fee]

\* ------------------------------------------------------ remove_small_outputs

\* sum([x[1] for x in input_subset]) - sum([x[1] for x in output_subset])
Flow(partition, i) == SumValues(partition[1][i]) - SumValues(partition[2][i])

RECURSIVE MinFlow(_, _, _)
\* lines 178-184 from index i on (1-based), min_flow so far
MinFlow(partition, i, min_flow) ==
    IF i > Len(partition[1])
    THEN min_flow
    ELSE MinFlow(partition, i + 1,
                 IF Flow(partition, i) < min_flow THEN Flow(partition, i)
                 ELSE min_flow)

RECURSIVE DeltaLoop(_, _, _)
\* lines 168-187 from the j-th acceptable partition on, delta so far
DeltaLoop(acceptable_partitions, j, delta) ==
    IF j > Len(acceptable_partitions)
    THEN delta
    ELSE LET partition == acceptable_partitions[j]
             min_flow == MinFlow(partition, 2, Flow(partition, 1))
         IN  DeltaLoop(acceptable_partitions, j + 1,
                       IF min_flow > delta THEN min_flow ELSE delta)

\* lines 167-187
Delta(transaction) == DeltaLoop(get_acceptable_partitions(transaction), 1, 0)

\* a faulty variant of remove_small_outputs, with < delta for <= delta in the
\* test of line 195.  C7_PrunesByDelta fails of it.
remove_small_outputs_Strict(transaction) ==
    LET delta == Delta(transaction)
        outputs == sort(transaction.outputs)
        outputs_to_remove == SelectSeq(outputs, LAMBDA output : output[2] < delta)
    IN  [transaction EXCEPT
            !.outputs = Without(outputs, outputs_to_remove),
            !.fee = transaction.fee + SumValues(outputs_to_remove)]

\* the transaction remove_small_outputs leaves and returns, where its call of
\* get_acceptable_partitions returns
remove_small_outputs(transaction) ==
    LET delta == Delta(transaction)
        outputs == sort(transaction.outputs)
        outputs_to_remove == SelectSeq(outputs, LAMBDA output : output[2] <= delta)
    IN  [transaction EXCEPT
            !.outputs = Without(outputs, outputs_to_remove),
            !.fee = transaction.fee + SumValues(outputs_to_remove)]

\* -------------------------------------------------------------------- state

VARIABLES
    op,             \* the function the caller called
    pc,             \* the call or loop step to run next, "done" after the return
    transaction,    \* the transaction list the caller passed, as it is now
    caller_inputs,  \* the list object that was transaction[1] at the call
    ret,            \* what the function that returned last returned
    tx0,            \* the transaction as the caller passed it
    before,         \* the transaction as the function called last received it
    list,           \* get_partitions' list argument
    max_size,       \* get_partitions' max_size argument (get_codewords' k)
    codeword,       \* get_codewords' codeword
    codewords       \* get_codewords' codewords

vars == <<op, pc, transaction, caller_inputs, ret, tx0, before,
          list, max_size, codeword, codewords>>

\* Python's None
None == [none |-> TRUE]

\* no transaction: the caller called get_partitions
NoTransaction == [inputs |-> <<>>, outputs |-> <<>>, fee |-> 0]

\* ------------------------------------------------------------ initial states

\* identifiers by position
InputNames == <<"a1", "a2", "a3", "a4", "a5", "a6">>
OutputNames == <<"b1", "b2", "b3", "b4", "b5", "b6">>

\* the lists of n entries with values up to v whose identifiers are pairwise
\* distinct
DistinctLists(names, n, v) ==
    {[i \in 1..n |-> <<names[i], vals[i]>>] : vals \in [1..n -> 0..v]}

\* the lists of n entries with values up to v that all carry one identifier:
\* entries of equal value are then equal tuples
SameIdLists(names, n, v) ==
    {[i \in 1..n |-> <<names[1], vals[i]>>] : vals \in [1..n -> 0..v]}

\* the lists of n entries of pairwise distinct identifiers whose values add
\* up to total at most
TotalLists(names, n, total) ==
    {l \in DistinctLists(names, n, total) : SumValues(l) <= total}

\* the non-empty input lists and output lists of at most len entries
InputLists(len, v) ==
    UNION {DistinctLists(InputNames, n, v) \cup SameIdLists(InputNames, n, v) :
           n \in 1..len}
OutputLists(len, v) == UNION {DistinctLists(OutputNames, n, v) : n \in 1..len}

\* sum(input values) == sum(output values) + fee
Conserved(t) == SumValues(t.inputs) = SumValues(t.outputs) + t.fee

\* the transactions of the data model a caller passes to untangle or to
\* remove_small_outputs: at least one input and one output, non-negative
\* values, a non-negative fee, and inputs = outputs + fee
Transactions ==
    {[inputs |-> i, outputs |-> o, fee |-> SumValues(i) - SumValues(o)] :
        <<i, o>> \in {io \in InputLists(MaxLen, MaxVal) \X OutputLists(MaxLen, MaxVal) :
                         SumValues(io[1]) >= SumValues(io[2])}}

\* the transactions a caller passes to get_acceptable_partitions: the fee is
\* not tied to the sums (the module's own example 'figure4' has inputs and
\* outputs of equal sum and fee 10)
MatchTransactions ==
    {[inputs |-> i, outputs |-> o, fee |-> f] :
        <<i, o>> \in UNION {TotalLists(InputNames, n, MatchTotal)
                                \X TotalLists(OutputNames, m, MatchTotal) :
                            <<n, m>> \in {nm \in (1..MatchEntries) \X (1..MatchEntries) :
                                             nm[1] + nm[2] <= MatchEntries}},
        f \in 0..MatchFee}

\* the element lists a caller passes to get_partitions, the empty one included
Elements == {"x", "y"}
ElementLists == UNION {[1..n -> Elements] : n \in 0..MaxN}

\* the first step of each function a caller calls with a transaction
FirstStep(f) ==
    CASE f = "untangle" -> "remove_small_inputs"
      [] f = "remove_small_outputs" -> "remove_small_outputs"
      [] f = "get_acceptable_partitions" -> "get_acceptable_partitions"

\* the state as a caller calls function f with transaction t
Called(f, t) ==
    /\ op = f
    /\ pc = FirstStep(f)
    /\ transaction = t
    /\ caller_inputs = t.inputs
    /\ ret = None
    /\ tx0 = t
    /\ before = t
    /\ list = <<>>
    /\ max_size = 0
    /\ codeword = <<>>
    /\ codewords = <<>>

\* a caller has called untangle or remove_small_outputs
Init ==
    \E f \in {"untangle", "remove_small_outputs"}, t \in Transactions :
        Called(f, t)

\* a caller has called get_acceptable_partitions
InitMatch == \E t \in MatchTransactions : Called("get_acceptable_partitions", t)

\* a caller has called get_partitions(l, k): lines 60-61, and 41-42 of
\* get_codewords
InitPartitions ==
    \E l \in ElementLists, k \in (0 - 1)..MaxN :
        /\ op = "get_partitions"
        /\ pc = "cw_append"
        /\ transaction = NoTransaction
        /\ caller_inputs = <<>>
        /\ ret = None
        /\ tx0 = NoTransaction
        /\ before = NoTransaction
        /\ list = l
        /\ max_size = k
        /\ codeword = Ones(Len(l))
        /\ codewords = <<>>

\* ------------------------------------------------------ get_codewords, steps

\* a^b
RECURSIVE Pow(_, _)
Pow(a, b) == IF b = 0 THEN 1 ELSE a * Pow(a, b - 1)

\* There are at most n^n codewords of length n over 1..n, so a longer list
\* holds repeats only; the model keeps the list to that length.
CodewordCap(n) == Pow(n, n)

\* lines 60-61 of get_partitions and 41-42 of get_codewords: the frame of a
\* call get_partitions(l, k)
EnterGetCodewords(l, k) ==
    /\ list' = l
    /\ max_size' = k
    /\ codeword' = Ones(Len(l))
    /\ codewords' = <<>>
    /\ pc' = "cw_append"

\* lines 44-45: codewords.append(codeword.copy())
CwAppend ==
    /\ pc = "cw_append"
    /\ codewords' = IF Len(codewords) < CodewordCap(Len(list))
                    THEN Append(codewords, codeword)
                    ELSE codewords
    /\ pc' = "cw_advance"
    /\ UNCHANGED <<op, transaction, caller_inputs, ret, tx0, before,
                   list, max_size, codeword>>

\* lines 45-57: the inner while loop, to the return, the break or its end
CwAdvance ==
    /\ pc = "cw_advance"
    /\ LET r == InnerLoop(codeword, Len(list) - 1, max_size)
       IN  /\ codeword' = r.codeword
           /\ pc' = IF r.how = "return" THEN "cw_returned" ELSE "cw_append"
    /\ UNCHANGED <<op, transaction, caller_inputs, ret, tx0, before,
                   list, max_size, codewords>>

\* lines 63-76 of get_partitions, called by the caller: the partitions
BuildPartitions ==
    /\ pc = "cw_returned"
    /\ op = "get_partitions"
    /\ ret' = PartitionsOf(list, codewords)
    /\ pc' = "done"
    /\ UNCHANGED <<op, transaction, caller_inputs, tx0, before,
                   list, max_size, codeword, codewords>>

\* ------------------------------------------------------------------ actions

\* the get_partitions call of get_acceptable_partitions that does not return
\* (lines 129-130): the inputs' when there is no input, else the outputs'
StuckCall(t) ==
    IF ~Returns(Len(t.inputs)) THEN t.inputs ELSE t.outputs

\* line 204 (simplify): transaction = remove_small_inputs(transaction).  The
\* sort of line 150 is in place, on the caller's list object; line 159 binds
\* a new list to transaction[1].
RemoveSmallInputs ==
    /\ pc = "remove_small_inputs"
    /\ before' = transaction
    /\ transaction' = remove_small_inputs(transaction)
    /\ caller_inputs' = sort(transaction.inputs)
    /\ ret' = transaction'
    /\ pc' = "remove_small_outputs"
    /\ UNCHANGED <<op, tx0, list, max_size, codeword, codewords>>

\* line 205 (simplify), or the caller's call: remove_small_outputs(transaction)
RemoveSmallOutputs ==
    /\ pc = "remove_small_outputs"
    /\ before' = transaction
    /\ IF GapReturns(transaction)
       THEN /\ transaction' = remove_small_outputs(transaction)
            /\ ret' = transaction'
            /\ pc' = IF op = "untangle" THEN "simplify_return" ELSE "done"
            /\ UNCHANGED <<list, max_size, codeword, codewords>>
       ELSE /\ EnterGetCodewords(StuckCall(transaction),
                    Min(Len(transaction.inputs), Len(transaction.outputs)))
            /\ UNCHANGED <<transaction, ret>>
    /\ UNCHANGED <<op, caller_inputs, tx0>>

\* simplify ends after line 205 with no return statement: it returns None
SimplifyReturn ==
    /\ pc = "simplify_return"
    /\ ret' = None
    /\ pc' = "get_acceptable_partitions"
    /\ UNCHANGED <<op, transaction, caller_inputs, tx0, before,
                   list, max_size, codeword, codewords>>

\* lines 209-210 (untangle), or the caller's call:
\* get_acceptable_partitions(transaction)
GetAcceptablePartitions ==
    /\ pc = "get_acceptable_partitions"
    /\ before' = transaction
    /\ IF GapReturns(transaction)
       THEN /\ ret' = get_acceptable_partitions(transaction)
            /\ pc' = "done"
            /\ UNCHANGED <<list, max_size, codeword, codewords>>
       ELSE /\ EnterGetCodewords(StuckCall(transaction),
                    Min(Len(transaction.inputs), Len(transaction.outputs)))
            /\ UNCHANGED ret
    /\ UNCHANGED <<op, transaction, caller_inputs, tx0>>

Next ==
    \/ RemoveSmallInputs
    \/ RemoveSmallOutputs
    \/ SimplifyReturn
    \/ GetAcceptablePartitions
    \/ CwAppend
    \/ CwAdvance

Spec == Init /\ [][Next]_vars

\* the positions of a call of untangle or of remove_small_outputs
Labels ==
    {"remove_small_inputs", "remove_small_outputs", "simplify_return",
     "get_acceptable_partitions", "cw_append", "cw_advance", "done"}

\* a step that leaves the current position.  Every action of Next is defined
\* in every state at its position and moves pc, so such a step is possible
\* exactly when the call has not ended.
Advance ==
    /\ pc # "done"
    /\ pc' \in Labels \ {pc}

\* the interpreter runs the call on: a step that can be taken is taken
FairSpec == Spec /\ WF_pc(Advance)

\* get_acceptable_partitions called by the caller
NextMatch == GetAcceptablePartitions

SpecMatch == InitMatch /\ [][NextMatch]_vars

\* get_partitions called by the caller
NextPartitions ==
    \/ CwAppend
    \/ CwAdvance
    \/ BuildPartitions

SpecPartitions == InitPartitions /\ [][NextPartitions]_vars

\* ---------------------------------------------------------------------------
\* What the properties are stated with: set partitions, pairings and flows
\* defined from scratch, not by the code's enumeration.
\* ---------------------------------------------------------------------------

\* the larger of two integers
Max2(a, b) == IF a >= b THEN a ELSE b

\* the largest and the smallest member of a non-empty set of integers
SetMax(S) == CHOOSE m \in S : \A x \in S : x <= m
SetMin(S) == CHOOSE m \in S : \A x \in S : m <= x

\* the set partitions of the positions 1..n into exactly j blocks
SetPartitions(n, j) ==
    {{{i \in 1..n : f[i] = b} : b \in 1..j} :
        f \in {g \in [1..n -> 1..j] : \A b \in 1..j : \E i \in 1..n : g[i] = b}}

\* the set partitions of the positions 1..n into 1..k blocks
SetPartitionsUpTo(n, k) == UNION {SetPartitions(n, j) : j \in 1..k}

RECURSIVE Stirling(_, _)
\* the Stirling number of the second kind S(n, j)
Stirling(n, j) ==
    IF n = 0 THEN (IF j = 0 THEN 1 ELSE 0)
    ELSE IF j = 0 THEN 0
    ELSE j * Stirling(n - 1, j) + Stirling(n - 1, j - 1)

RECURSIVE StirlingSum(_, _)
\* S(n, 1) + ... + S(n, k)
StirlingSum(n, k) == IF k < 1 THEN 0 ELSE Stirling(n, k) + StirlingSum(n, k - 1)

\* the blocks of positions a codeword puts together
BlocksOf(cw) ==
    {{i \in 1..Len(cw) : cw[i] = b} : b \in {cw[i] : i \in 1..Len(cw)}}

\* the elements of l at the positions of block B, in the order of l
Restrict(l, B) ==
    LET at == SelectSeq([i \in 1..Len(l) |-> i], LAMBDA i : i \in B)
    IN  [j \in 1..Len(at) |-> l[at[j]]]

\* the sum of the values of the entries of l at the positions of B
BlockSum(l, B) == SumSeq([i \in 1..Len(l) |-> IF i \in B THEN l[i][2] ELSE 0])

\* partition (a list of lists of elements of l) is the set partition P of the
\* positions of l: its subsets are the blocks of P, one each
IsImage(partition, l, P) ==
    /\ Len(partition) = Cardinality(P)
    /\ \E f \in [1..Len(partition) -> P] :
          /\ \A a, b \in 1..Len(partition) : a # b => f[a] # f[b]
          /\ \A b \in 1..Len(partition) :
                partition[b] # <<>> /\ partition[b] = Restrict(l, f[b])

\* the positions in l of the members of subset (the entries of l are distinct)
Positions(l, subset) == {i \in 1..Len(l) : InList(l[i], subset)}

\* a pairing of t of size k: a set partition of the input positions into k
\* blocks, each paired with a block of its own of a set partition of the
\* output positions into k blocks; as the set of the pairs <<B, C>>
Pairings(t, k) ==
    UNION {{{<<B, m[B]>> : B \in P} :
              m \in {h \in [P -> Q] : \A B1, B2 \in P : B1 # B2 => h[B1] # h[B2]}} :
           <<P, Q>> \in SetPartitions(Len(t.inputs), k)
                           \X SetPartitions(Len(t.outputs), k)}

\* input sum minus output sum of a pair
PairFlow(t, pr) == BlockSum(t.inputs, pr[1]) - BlockSum(t.outputs, pr[2])

\* the pairings of t of a size from 2 to min(|inputs|, |outputs|) whose pairs
\* all satisfy out_sum <= in_sum <= out_sum + fee
AcceptablePairings(t) ==
    UNION {{pg \in Pairings(t, k) :
              \A pr \in pg : 0 <= PairFlow(t, pr) /\ PairFlow(t, pr) <= t.fee} :
           k \in 2..Min(Len(t.inputs), Len(t.outputs))}

\* the pairing an entry <<input_partition, output_ordering>> of a result stands for
PairingOf(t, x) ==
    {<<Positions(t.inputs, x[1][i]), Positions(t.outputs, x[2][i])>> :
        i \in 1..Len(x[1])}

\* the flows of the index-aligned pairs of an entry of a result
FlowsOf(x) == [i \in 1..Len(x[1]) |-> SumValues(x[1][i]) - SumValues(x[2][i])]

\* the maximum over the acceptable pairings of the minimum flow of the pairs,
\* 0 when there is none
SpecDelta(t) ==
    SetMax({0} \cup {SetMin({PairFlow(t, pr) : pr \in pg}) :
                        pg \in AcceptablePairings(t)})

\* how many times entry e occurs in list l
Count(e, l) == Cardinality({i \in 1..Len(l) : l[i] = e})

\* s is t with some items left out, the others in the order of t
RECURSIVE IsSubsequence(_, _)
IsSubsequence(s, t) ==
    IF s = <<>> THEN TRUE
    ELSE IF t = <<>> THEN FALSE
    ELSE IF Head(s) = Head(t) THEN IsSubsequence(Tail(s), Tail(t))
    ELSE IsSubsequence(s, Tail(t))

\* ---------------------------------------------------------------------------
\* The step machine of get_codewords and the operator agree.
\* ---------------------------------------------------------------------------

\* under SpecPartitions: get_codewords returns only with n >= 1, and then what
\* the operator get_codewords gives
CodewordsAgree ==
    pc \in {"cw_returned", "done"} =>
        /\ Returns(Len(list))
        /\ codewords = get_codewords(Len(list), max_size)


\* ---------------------------------------------------------------------------
\* The claims.
\* ---------------------------------------------------------------------------

\* the states in which the call of remove_small_inputs has returned
AfterRemoveSmallInputs == op = "untangle" /\ pc # "remove_small_inputs"

\* the states right after a call of remove_small_outputs has returned
RemoveSmallOutputsReturned ==
    \/ op = "untangle" /\ pc = "simplify_return"
    \/ op = "remove_small_outputs" /\ pc = "done"

\* the states right after a call of get_acceptable_partitions by the caller
\* has returned
MatchReturned == op = "get_acceptable_partitions" /\ pc = "done"

\* C1 (as claimed): conservation is preserved by each Simplifier step: a
\* transaction passed in with sum(inputs) = sum(outputs) + fee, entries not
\* required to be pairwise distinct, satisfies the same equation after
\* remove_small_inputs and after remove_small_outputs applied to that result.
C1_ConservationPreserved ==
    (op = "untangle" /\ Conserved(tx0)
       /\ pc \in {"remove_small_outputs", "simplify_return"})
        => Conserved(transaction)

\* C2 (as claimed): untangle always completes normally: called with a
\* transaction of the data model it terminates and returns a list of
\* acceptable partitions, whatever the simplify step removes.
C2_UntangleCompletes == (op = "untangle") ~> (pc = "done")

\* C3: every AcceptablePartition returned by get_acceptable_partitions is
\* sound: its two partitions have the same number of subsets and every
\* index-aligned pair has 0 <= in_sum - out_sum <= fee; is_connectable holds
\* exactly when out_sum <= in_sum <= out_sum + fee, boundaries included.
C3_AcceptableSound ==
    MatchReturned =>
        /\ \A j \in 1..Len(ret) :
              /\ Len(ret[j][1]) = Len(ret[j][2])
              /\ \A i \in 1..Len(ret[j][1]) :
                    /\ 0 <= FlowsOf(ret[j])[i]
                    /\ FlowsOf(ret[j])[i] <= transaction.fee
        /\ \A B \in SUBSET (1..Len(transaction.inputs)),
              C \in SUBSET (1..Len(transaction.outputs)) :
              is_connectable(Restrict(transaction.inputs, B),
                             Restrict(transaction.outputs, C), transaction.fee)
                <=> /\ BlockSum(transaction.outputs, C)
                         <= BlockSum(transaction.inputs, B)
                    /\ BlockSum(transaction.inputs, B)
                         <= BlockSum(transaction.outputs, C) + transaction.fee

\* C3's case: a returned entry with a pair at each boundary, in_sum = out_sum
\* and in_sum = out_sum + fee with fee > 0
C3_Witness ==
    /\ MatchReturned
    /\ transaction.fee > 0
    /\ \E j \in 1..Len(ret) :
          /\ \E i \in 1..Len(ret[j][1]) : FlowsOf(ret[j])[i] = 0
          /\ \E i \in 1..Len(ret[j][1]) : FlowsOf(ret[j])[i] = transaction.fee

\* C4: get_acceptable_partitions is exact: for every k from 2 to
\* min(|inputs|, |outputs|), every input partition of size k and every
\* ordering of every output partition of size k whose k index-aligned pairs
\* are all connectable has one entry in the result, and the result holds
\* nothing else (no entry with k = 1, none at all when max_k < 2).
C4_AcceptableExact ==
    MatchReturned =>
        LET want == AcceptablePairings(transaction)
            got == [j \in 1..Len(ret) |-> PairingOf(transaction, ret[j])]
        IN  /\ \A j \in 1..Len(ret) :
                  Len(ret[j][1]) = Len(ret[j][2]) /\ got[j] \in want
            /\ \A pg \in want : \E j \in 1..Len(ret) : got[j] = pg
            /\ Len(ret) = Cardinality(want)

\* C4's case: a result with an entry of size 2 and one of size 3, while some
\* ordering of size 3 is not in it
C4_Witness ==
    /\ MatchReturned
    /\ \E j \in 1..Len(ret) : Len(ret[j][1]) = 2
    /\ \E j \in 1..Len(ret) : Len(ret[j][1]) = 3
    /\ \E pg \in Pairings(transaction, 3) : pg \notin AcceptablePairings(transaction)

\* C5: for a non-empty list of n elements and 1 <= k_max <= n, get_partitions
\* returns exactly the set partitions of the n positions into 1..k_max blocks,
\* each once: every returned partition has non-empty, pairwise disjoint
\* subsets whose union is the list, every such set partition is returned, and
\* their number is S(n, 1) + ... + S(n, k_max).
C5_PartitionsExact ==
    (op = "get_partitions" /\ pc = "done"
       /\ 1 <= max_size /\ max_size <= Len(list)) =>
        LET n == Len(list)
            want == SetPartitionsUpTo(n, max_size)
        IN  /\ Len(ret) = Cardinality(want)
            /\ Len(ret) = StirlingSum(n, max_size)
            /\ Len(codewords) = Len(ret)
            /\ {BlocksOf(codewords[c]) : c \in 1..Len(codewords)} = want
            /\ \A c \in 1..Len(ret) :
                  IsImage(ret[c], list, BlocksOf(codewords[c]))

\* C5's case: the five partitions of a list of three elements with k_max = 3
C5_Witness ==
    /\ op = "get_partitions" /\ pc = "done"
    /\ Len(list) = 3 /\ max_size = 3
    /\ Len(ret) = 5

\* C6 (as claimed): get_partitions called with an empty list or with
\* k_max < 1 does not return a collection of partitions.
C6_InvalidRejected ==
    (op = "get_partitions" /\ (Len(list) = 0 \/ max_size < 1)) => pc # "done"

\* C7: remove_small_outputs prunes by delta exactly: with delta the maximum
\* over the acceptable partitions of the transaction it receives of the
\* minimum flow of the partition's pairs (0 when there is none), it removes
\* every output of value <= delta and no output of value > delta, leaves the
\* inputs unchanged and adds the removed values to the fee.
C7_PrunesByDelta ==
    RemoveSmallOutputsReturned =>
        LET delta == SpecDelta(before)
            removed == SelectSeq(before.outputs, LAMBDA e : e[2] <= delta)
        IN  /\ \A i \in 1..Len(before.outputs) :
                  LET e == before.outputs[i]
                  IN  Count(e, transaction.outputs) =
                        IF e[2] > delta THEN Count(e, before.outputs) ELSE 0
            /\ \A i \in 1..Len(transaction.outputs) :
                  InList(transaction.outputs[i], before.outputs)
            /\ transaction.inputs = before.inputs
            /\ transaction.fee = before.fee + SumValues(removed)

\* C7's case: delta >= 1, an output of positive value removed and an output
\* kept
C7_Witness ==
    /\ RemoveSmallOutputsReturned
    /\ SpecDelta(before) >= 1
    /\ transaction.fee > before.fee
    /\ transaction.outputs # <<>>

\* C8 (as claimed): simplify returns the reduced transaction, the one
\* remove_small_inputs and then remove_small_outputs left.
C8_SimplifyReturnsTransaction ==
    (op = "untangle" /\ pc = "get_acceptable_partitions") => ret = transaction

\* C9 (as claimed): remove_small_inputs sorts a working copy only: the inputs
\* that survive are in the relative order they had in the transaction passed
\* in, and the caller's input list object is not reordered.
C9_SortsACopy ==
    AfterRemoveSmallInputs =>
        /\ IsSubsequence(transaction.inputs, tx0.inputs)
        /\ caller_inputs = tx0.inputs

\* C10: for a transaction with sum(inputs) = sum(outputs) + fee, the flows of
\* the pairs of every AcceptablePartition get_acceptable_partitions returns
\* add up to the fee exactly.
C10_FlowsAddUpToFee ==
    (MatchReturned /\ Conserved(transaction)) =>
        \A j \in 1..Len(ret) : SumSeq(FlowsOf(ret[j])) = transaction.fee

\* C10's case: a returned entry of a conserving transaction with fee > 0
\* that spends the fee on two pairs
C10_Witness ==
    /\ MatchReturned
    /\ Conserved(transaction)
    /\ transaction.fee > 0
    /\ \E j \in 1..Len(ret) :
          Cardinality({i \in 1..Len(ret[j][1]) : FlowsOf(ret[j])[i] > 0}) >= 2

====
